---- MODULE Spec2Model ----
(***************************************************************************)
(* A model of nordhero's three stateful cores:                             *)
(*   - the server inventory (models/database_management.py),               *)
(*   - the configuration store (models/config_management.py),              *)
(*   - the WireGuard status check (models/connection_management.py).       *)
(* Each core has its own specification (SpecInv, SpecCfg, SpecStatus);     *)
(* the variables of the other cores stay at their initial values.          *)
(*                                                                         *)
(* Text is modelled as a sequence of tokens (words and the separator       *)
(* characters the code splits on), so that str.split, str.strip, str.lower *)
(* and the `in` substring test are computed, not assumed.                  *)
(***************************************************************************)
EXTENDS Integers, Sequences, FiniteSets, TLC

\* ------------------------------------------------------------------ bounds
\* rows in one fetched batch
MaxBatch == 3
\* executemany chunk size of import_csv (500 in the code, scaled down so
\* that a batch holds a full chunk and a remainder)
ChunkSize == 2
\* refreshes in one behaviour
MaxRefreshes == 2
\* consecutive failures the remote source answers with before it answers
MaxFailures == 2

\* Python's None, where a string (None) or an object (PyNone) is optional
None == "None"
PyNone == [py |-> "NoneType"]

\* ------------------------------------------------------------------ state
VARIABLES
    \* --- inventory store (the sqlite file at database.path) ---
    dbExists,      \* whether the store's file exists
    dbTables,      \* tables that exist in the committed store
    dbServers,     \* committed rows of table servers, in rowid order
    dbMarker,      \* committed metadata['last_update'] (0: no row)
    dbGen,         \* history: the refresh whose rows dbServers holds (0: none)
    txServers,     \* the open connection's view of table servers
    txMarker,      \* the open connection's view of the marker
    rpc,           \* position of init_database
    batch,         \* rows of the temporary CSV file
    rowIdx,        \* next CSV row import_csv reads
    chunk,         \* import_csv's pending chunk
    clock,         \* number of refreshes started (the marker's timestamp)
    snapServers,   \* history: dbServers when the running refresh began
    snapMarker,    \* history: dbMarker when the running refresh began
    rOutcome,      \* how the last init_database call ended
    failStep,      \* history: rpc at which the last failed call failed
    counts,        \* (new_count, prev_count) of the running / last call
    srcPlan,       \* history: failures the source had in store for the last call
    fetchCalls     \* client.get_servers invocations of the running / last call

invVars == <<dbExists, dbTables, dbServers, dbMarker, dbGen, txServers,
             txMarker, rpc, batch, rowIdx, chunk, clock, snapServers, snapMarker,
             rOutcome, failStep, counts, srcPlan, fetchCalls>>

VARIABLES
    \* --- configuration store (config/config.toml, config/wireguard.key) ---
    cfgDir,        \* the config directory: "absent", or its mode
    cfgFile,       \* content of config.toml
    cfgFileMode,   \* permissions of config.toml ("none" while it is absent)
    keyFile,       \* the private key file: content and permissions
    cfgMem,        \* ConfigManager.config, the in-memory AppConfig
    cpc,           \* position of the running ConfigManager operation
    provIdx,       \* position in the provisioning steps
    provMode,      \* "interactive" or "env" (auto-configuration)
    cOp,           \* the operation running / last run
    cResult,       \* how the last operation ended
    memBefore,     \* history: cfgMem when the operation began
    fileBefore,    \* history: cfgFile when the operation began
    cCall,         \* history: the call the operation was begun with
    provRan        \* history: the operation entered _create_initial_config

cfgVars == <<cfgDir, cfgFile, cfgFileMode, keyFile, cfgMem, cpc, provIdx,
             provMode, cOp, cResult, memBefore, fileBefore, cCall, provRan>>

VARIABLES
    \* --- status check (wg show, ./db/servers.db) ---
    stDb,          \* rows of table servers in the store the status check opens
    listCall,      \* the last `wg show` call: how it ended and its stdout
    showCall,      \* the last `wg show wg0` call, or NotCalled
    dbCall,        \* how the store behaved in the last check, or "not opened"
    report,        \* the WGStatusReport the last check returned
    findDetails,   \* the details passed to the last _find_server_in_db call
    findFails,     \* whether the store failed the queries of that call
    findResult,    \* the (server, method) that call returned
    spc            \* position of check_wireguard_status

stVars == <<stDb, listCall, showCall, dbCall, report, findDetails, findFails,
            findResult, spc>>

VARIABLES
    \* --- read paths of the store (get_best_servers, get_servers) ---
    qpc,           \* "idle", or "done" once a read has returned
    qCall,         \* the read that ran: its name and arguments
    qStore,        \* how the store behaved: "ok", "connect fails", "read fails"
    qResult,       \* what the read returned (a list), or Raised
    qBefore        \* history: the store when the read began

qVars == <<qpc, qCall, qStore, qResult, qBefore>>

VARIABLES
    \* --- _parse_wg_interface_output ---
    parseIn,       \* the text handed to the parser (its lines)
    parseOut       \* what the parser returned, or Pending

pVars == <<parseIn, parseOut>>

VARIABLES
    \* --- the tunnel (wg0, /etc/wireguard/wg0.conf) ---
    ifaceUp,       \* the interface wg0 is up
    wgConf,        \* the tunnel config file: NoConf, or its [Peer] section
    tpc,           \* position of generate_config_from_list
    tSel,          \* the server the operator selected
    tReport,       \* is_connected of the status report taken before the apply
    tDown,         \* the disconnect the apply attempted: "none", "ok", "failed", "raised"
    tAnswer,       \* the answer to `Continue anyway?`: "none", "y", "n"
    conCall        \* the last cli_connect: its argument and how it went

tunVars == <<ifaceUp, wgConf, tpc, tSel, tReport, tDown, tAnswer, conCall>>

VARIABLES
    \* --- monitor_connection (the curses loop) ---
    mpc,           \* position in the loop body, or "exited"
    keys,          \* keys pressed and not yet read by getch()
    termResized,   \* "no", or the size the terminal was resized to: "ok", "small"
    resizes,       \* number of resizes so far
    mStarted,      \* check_wireguard_status calls begun by the loop
    mReturned,     \* check_wireguard_status calls that returned
    mExit,         \* how the loop ended: "running", "break", "error"
    pressedAt      \* history: position of the loop when the stop key was pressed

monVars == <<mpc, keys, termResized, resizes, mStarted, mReturned, mExit, pressedAt>>

vars == <<invVars, cfgVars, stVars, qVars, pVars, tunVars, monVars>>

nonInvVars == <<cfgVars, stVars, qVars, pVars, tunVars, monVars>>
nonCfgVars == <<invVars, stVars, qVars, pVars, tunVars, monVars>>
nonStVars == <<invVars, cfgVars, qVars, pVars, tunVars, monVars>>
nonQVars == <<cfgVars, stVars, pVars, tunVars, monVars>>
nonPVars == <<invVars, cfgVars, stVars, qVars, tunVars, monVars>>
nonTunVars == <<invVars, cfgVars, stVars, qVars, pVars, monVars>>
nonMonVars == <<invVars, cfgVars, stVars, qVars, pVars, tunVars>>

\* ------------------------------------------------------------ CSV rows
\* load as written in the CSV file; int() of it
IsIntText(s) == s \in {"10", "30", "90", "-1"}

IntOf(s) ==
    CASE s = "10" -> 10
      [] s = "30" -> 30
      [] s = "90" -> 90
      [] s = "-1" -> -1

Row(h, ip, c, l, k) ==
    [hostname |-> h, ip |-> ip, country |-> c, city |-> "city", load |-> l,
     public_key |-> k]

\* rows the remote source can supply (the last one carries a load that is
\* not a number)
SourceRows ==
    { Row("h1", <<"a1">>, "France", "10", <<"K1">>),
      Row("h2", <<"a2">>, "france", "30", <<"K2">>),
      Row("h1", <<"a2">>, "Spain",  "90", <<"K2">>),
      Row("h3", <<"a3">>, "Spain",  "-1", <<>>),
      Row("h2", <<"a1">>, "France", "x",  <<"K1">>) }

RECURSIVE SeqsUpTo(_, _)
SeqsUpTo(S, n) ==
    IF n = 0 THEN {<<>>}
    ELSE LET shorter == SeqsUpTo(S, n - 1)
         IN  shorter \cup {Append(s, x) : s \in {t \in shorter : Len(t) = n - 1}, x \in S}

Batches == SeqsUpTo(SourceRows, MaxBatch)

\* ServerDBRecord(..., load=int(row['load']), ...): ValueError on a load
\* that is not an integer; there is no range check on load
RowIsValid(row) == IsIntText(row.load)

ServerRecord(row) == [row EXCEPT !.load = IntOf(row.load)]

\* an insert into a table without the key on hostname
ExecuteManyInsertNoKey(table, rows) == [ok |-> TRUE, table |-> table \o rows]

\* cursor.executemany(INSERT ...): rows are inserted one by one; the PRIMARY
\* KEY on hostname raises IntegrityError at the first duplicate
RECURSIVE ExecuteManyInsert(_, _)
ExecuteManyInsert(table, rows) ==
    IF rows = <<>> THEN [ok |-> TRUE, table |-> table]
    ELSE IF \E i \in 1..Len(table) : table[i].hostname = Head(rows).hostname
         THEN [ok |-> FALSE, table |-> table]
         ELSE ExecuteManyInsert(Append(table, Head(rows)), Tail(rows))

\* ------------------------------------------------------------ init_database
\* conn.close() (DatabaseClient.__exit__) without a commit, or the death of
\* the process: sqlite discards the open transaction
Rollback ==
    /\ txServers' = dbServers
    /\ txMarker' = dbMarker

\* a failure handler that returns instead of exiting
ExitAtReturning(step) ==
    /\ UNCHANGED nonInvVars
    /\ rpc' = "idle"
    /\ rOutcome' = "returned"
    /\ failStep' = step
    /\ batch' = <<>>
    /\ rowIdx' = 1
    /\ chunk' = <<>>

\* init_database leaves through sys.exit(1)
ExitAt(step) ==
    /\ UNCHANGED nonInvVars
    /\ rpc' = "idle"
    /\ rOutcome' = "exit"
    /\ failStep' = step
    /\ batch' = <<>>
    /\ rowIdx' = 1
    /\ chunk' = <<>>

InvInit ==
    /\ dbExists = FALSE
    /\ dbTables = {}
    /\ dbServers = <<>>
    /\ dbMarker = 0
    /\ dbGen = 0
    /\ txServers = <<>>
    /\ txMarker = 0
    /\ rpc = "idle"
    /\ batch = <<>>
    /\ rowIdx = 1
    /\ chunk = <<>>
    /\ clock = 0
    /\ snapServers = <<>>
    /\ snapMarker = 0
    /\ rOutcome = "none"
    /\ failStep = "none"
    /\ counts = <<0, 0>>
    /\ srcPlan = 0
    /\ fetchCalls = 0

\* client.get_servers + client.export_to_csv succeed
FetchServers ==
    /\ UNCHANGED nonInvVars
    /\ rpc = "idle"
    /\ clock < MaxRefreshes
    /\ \E b \in Batches : batch' = b
    /\ clock' = clock + 1
    /\ rpc' = "fetched"
    /\ snapServers' = dbServers
    /\ snapMarker' = dbMarker
    /\ rOutcome' = "running"
    /\ failStep' = "none"
    /\ counts' = <<0, 0>>
    /\ srcPlan' = 0
    /\ fetchCalls' = 1
    /\ UNCHANGED <<dbExists, dbTables, dbServers, dbMarker, dbGen, txServers, txMarker,
                   rowIdx, chunk>>

\* client.get_servers raises (APIError, DataValidationError) at its one
\* invocation; the source would have answered after srcPlan failures
FetchFails ==
    /\ rpc = "idle"
    /\ clock < MaxRefreshes
    /\ clock' = clock + 1
    /\ snapServers' = dbServers
    /\ snapMarker' = dbMarker
    /\ counts' = <<0, 0>>
    /\ \E f \in 1..MaxFailures : srcPlan' = f
    /\ fetchCalls' = 1
    /\ ExitAt("fetch")
    /\ UNCHANGED <<dbExists, dbTables, dbServers, dbMarker, dbGen, txServers, txMarker>>

\* client.export_to_csv raises (OSError: the CSV file cannot be written)
ExportFails ==
    /\ rpc = "idle"
    /\ clock < MaxRefreshes
    /\ clock' = clock + 1
    /\ snapServers' = dbServers
    /\ snapMarker' = dbMarker
    /\ counts' = <<0, 0>>
    /\ srcPlan' = 0
    /\ fetchCalls' = 1
    /\ ExitAt("export")
    /\ UNCHANGED <<dbExists, dbTables, dbServers, dbMarker, dbGen, txServers, txMarker>>

\* with DatabaseClient(...): SELECT COUNT(*) (0 if the table is missing),
\* then init_db(): CREATE TABLE IF NOT EXISTS servers ...; commit
OpenStore ==
    /\ UNCHANGED nonInvVars
    /\ rpc = "fetched"
    /\ counts' = <<0, IF "servers" \in dbTables THEN Len(dbServers) ELSE 0>>
    /\ dbExists' = TRUE
    /\ dbTables' = dbTables \cup {"servers"}
    /\ UNCHANGED <<srcPlan, fetchCalls>>
    /\ rpc' = "opened"
    /\ UNCHANGED <<dbServers, dbMarker, dbGen, txServers, txMarker, batch,
                   rowIdx, chunk, clock, snapServers, snapMarker, rOutcome,
                   failStep>>

\* import_csv: DELETE FROM servers (opens the implicit transaction)
DeleteServers ==
    /\ UNCHANGED nonInvVars
    /\ rpc = "opened"
    /\ txServers' = <<>>
    /\ rowIdx' = 1
    /\ chunk' = <<>>
    /\ rpc' = "reading"
    /\ UNCHANGED <<srcPlan, fetchCalls, dbExists, dbTables, dbServers, dbMarker,
                   dbGen, txMarker, batch,
                   clock, snapServers, snapMarker, rOutcome, failStep, counts>>

\* import_csv: one iteration of `for row in csv_reader`
ReadRow ==
    /\ rpc = "reading"
    /\ rowIdx <= Len(batch)
    /\ LET row == batch[rowIdx]
           full == Append(chunk, ServerRecord(row))
           ins == ExecuteManyInsert(txServers, full)
       IN  IF ~RowIsValid(row)
           THEN /\ Rollback
                /\ ExitAt("bad row")
           ELSE IF Len(full) < ChunkSize
           THEN /\ chunk' = full
                /\ rowIdx' = rowIdx + 1
                /\ UNCHANGED <<txServers, txMarker, rpc, batch, rOutcome, failStep>>
                /\ UNCHANGED nonInvVars
           ELSE IF ins.ok
           THEN /\ txServers' = ins.table
                /\ chunk' = <<>>
                /\ rowIdx' = rowIdx + 1
                /\ UNCHANGED <<txMarker, rpc, batch, rOutcome, failStep>>
                /\ UNCHANGED nonInvVars
           ELSE /\ Rollback
                /\ ExitAt("duplicate hostname")
    /\ UNCHANGED <<srcPlan, fetchCalls, dbExists, dbTables, dbServers, dbMarker,
                   dbGen, clock, snapServers,
                   snapMarker, counts>>

\* import_csv: `if chunk:` insert the remaining records
InsertRemaining ==
    /\ rpc = "reading"
    /\ rowIdx > Len(batch)
    /\ LET ins == ExecuteManyInsert(txServers, chunk)
       IN  IF ins.ok
           THEN /\ txServers' = ins.table
                /\ chunk' = <<>>
                /\ rpc' = "inserted"
                /\ UNCHANGED <<txMarker, batch, rowIdx, rOutcome, failStep>>
                /\ UNCHANGED nonInvVars
           ELSE /\ Rollback
                /\ ExitAt("duplicate hostname")
    /\ UNCHANGED <<srcPlan, fetchCalls, dbExists, dbTables, dbServers, dbMarker,
                   dbGen, clock, snapServers,
                   snapMarker, counts>>

\* import_csv: self.conn.commit()
CommitImport ==
    /\ UNCHANGED nonInvVars
    /\ rpc = "inserted"
    /\ dbServers' = txServers
    /\ dbGen' = clock
    /\ rpc' = "imported"
    /\ UNCHANGED <<srcPlan, fetchCalls, dbExists, dbTables, dbMarker, txServers,
                   txMarker, batch, rowIdx,
                   chunk, clock, snapServers, snapMarker, rOutcome, failStep,
                   counts>>

\* a marker step that returns the two counts in the other order
WriteMarkerSwapped ==
    /\ UNCHANGED nonInvVars
    /\ rpc = "imported"
    /\ counts' = <<counts[2], Len(txServers)>>
    /\ dbTables' = dbTables \cup {"metadata"}
    /\ UNCHANGED <<dbExists, srcPlan, fetchCalls>>
    /\ txMarker' = clock
    /\ rpc' = "marked"
    /\ UNCHANGED <<dbServers, dbMarker, dbGen, txServers, batch, rowIdx, chunk,
                   clock, snapServers, snapMarker, rOutcome, failStep>>

\* init_database: SELECT COUNT(*); CREATE TABLE IF NOT EXISTS metadata;
\* INSERT OR REPLACE INTO metadata (opens a second implicit transaction)
WriteMarker ==
    /\ UNCHANGED nonInvVars
    /\ rpc = "imported"
    /\ counts' = <<Len(txServers), counts[2]>>
    /\ dbTables' = dbTables \cup {"metadata"}
    /\ UNCHANGED <<dbExists, srcPlan, fetchCalls>>
    /\ txMarker' = clock
    /\ rpc' = "marked"
    /\ UNCHANGED <<dbServers, dbMarker, dbGen, txServers, batch, rowIdx, chunk,
                   clock, snapServers, snapMarker, rOutcome, failStep>>

\* init_database: db.conn.commit(); close; unlink the CSV; return the counts
CommitMarker ==
    /\ UNCHANGED nonInvVars
    /\ rpc = "marked"
    /\ dbMarker' = txMarker
    /\ rpc' = "idle"
    /\ rOutcome' = "returned"
    /\ batch' = <<>>
    /\ UNCHANGED <<srcPlan, fetchCalls, dbExists, dbTables, dbServers, dbGen,
                   txServers, txMarker, rowIdx,
                   chunk, clock, snapServers, snapMarker, failStep, counts>>

\* a storage-engine error (sqlite3.Error) in the statement about to run, or
\* the process being killed there: the connection is closed without a commit
StoreFailure ==
    /\ rpc \in {"fetched", "opened", "reading", "inserted", "imported", "marked"}
    /\ Rollback
    /\ ExitAt(rpc)
    /\ UNCHANGED <<srcPlan, fetchCalls, dbExists, dbTables, dbServers, dbMarker,
                   dbGen, clock, snapServers,
                   snapMarker, counts>>

InvNext ==
    \/ FetchServers
    \/ FetchFails
    \/ ExportFails
    \/ OpenStore
    \/ DeleteServers
    \/ ReadRow
    \/ InsertRemaining
    \/ CommitImport
    \/ WriteMarker
    \/ CommitMarker
    \/ StoreFailure


\* ================================================================ text
\* A string is a sequence of tokens.  NoneStr stands for Python's None where a
\* string is optional; its token occurs in no text.
NoneStr == <<"<None>">>

\* `if s:` on an Optional[str]
Truthy(s) == s # NoneStr /\ s # <<>>

\* str.lower(), token by token
LowerToken(t) ==
    CASE t = "K1" -> "k1"
      [] t = "K2" -> "k2"
      [] t = "Peer" -> "peer"
      [] t = "KiB" -> "kib"
      [] OTHER -> t

Lower(s) == [i \in 1..Len(s) |-> LowerToken(s[i])]

\* str.strip()
RECURSIVE LStrip(_)
LStrip(s) == IF s # <<>> /\ Head(s) = " " THEN LStrip(Tail(s)) ELSE s

RECURSIVE RStrip(_)
RStrip(s) ==
    IF s # <<>> /\ s[Len(s)] = " " THEN RStrip(SubSeq(s, 1, Len(s) - 1)) ELSE s

Strip(s) == RStrip(LStrip(s))

\* `pat in s`
Contains(s, pat) ==
    \E i \in 0..(Len(s) - Len(pat)) : SubSeq(s, i + 1, i + Len(pat)) = pat

\* s.startswith(pat)
StartsWith(s, pat) == Len(s) >= Len(pat) /\ SubSeq(s, 1, Len(pat)) = pat

\* position of the first token sep in s, 0 if there is none
FirstIndex(s, sep) ==
    IF \E i \in 1..Len(s) : s[i] = sep
    THEN CHOOSE i \in 1..Len(s) : s[i] = sep /\ \A j \in 1..(i - 1) : s[j] # sep
    ELSE 0

\* s.split(sep)
RECURSIVE Split(_, _)
Split(s, sep) ==
    LET i == FirstIndex(s, sep)
    IN  IF i = 0 THEN <<s>>
        ELSE <<SubSeq(s, 1, i - 1)>> \o Split(SubSeq(s, i + 1, Len(s)), sep)

\* s.split(sep, 1)
SplitOnce(s, sep) ==
    LET i == FirstIndex(s, sep)
    IN  IF i = 0 THEN <<s>>
        ELSE <<SubSeq(s, 1, i - 1), SubSeq(s, i + 1, Len(s))>>

\* ================================================================ wg show
NoDetails == [kind |-> "None"]

\* connection_info as _parse_wg_interface_output initialises it
InitialInfo ==
    [kind |-> "details", public_key |-> NoneStr, endpoint |-> NoneStr,
     latest_handshake |-> NoneStr,
     transfer |-> [received |-> <<"0", " ", "B">>, sent |-> <<"0", " ", "B">>]]

StripPort(e) == IF Contains(e, <<":">>) THEN Split(e, ":")[1] ELSE e

\* the body of `for line in output.split('\n')` for one line: the updated
\* connection_info, or NoDetails when the line raises (tuple unpacking of a
\* transfer value that does not split into exactly two parts)
ParseLine(raw, info) ==
    LET line == Lower(Strip(raw))
    IN  IF Contains(line, <<"peer", ":">>)
        THEN [info EXCEPT !.public_key = Strip(Split(line, ":")[2])]
        ELSE IF Contains(line, <<"endpoint", ":">>)
        THEN [info EXCEPT !.endpoint = StripPort(Strip(Split(line, ":")[2]))]
        ELSE IF Contains(line, <<"latest", " ", "handshake", ":">>)
        THEN [info EXCEPT !.latest_handshake = Strip(SplitOnce(line, ":")[2])]
        ELSE IF Contains(line, <<"transfer", ":">>)
        THEN LET transfer == Strip(SplitOnce(line, ":")[2])
                 parts == Split(transfer, ",")
             IN  IF Contains(transfer, <<"received">>) /\ Contains(transfer, <<"sent">>)
                 THEN IF Len(parts) # 2 THEN NoDetails
                      ELSE [info EXCEPT
                              !.transfer = [received |-> Strip(Split(parts[1], "received")[1]),
                                            sent |-> Strip(Split(parts[2], "sent")[1])]]
                 ELSE info
        ELSE info

RECURSIVE ParseLines(_, _)
ParseLines(lines, info) ==
    IF lines = <<>> \/ info = NoDetails THEN info
    ELSE ParseLines(Tail(lines), ParseLine(Head(lines), info))

\* _parse_wg_interface_output(output): output is the sequence of its lines
\* (the empty output is one empty line)
ParseWgInterfaceOutput(output) == ParseLines(output, InitialInfo)

\* ================================================================ queries
\* str.lower() / SQL LOWER() of a country name
LowerName(c) ==
    CASE c = "France" -> "france"
      [] c = "Spain"  -> "spain"
      [] OTHER        -> c

\* the first n elements
Take(seq, n) == SubSeq(seq, 1, IF n < Len(seq) THEN n ELSE Len(seq))

\* a filter that compares the country exactly
RowMatchesExactCountry(r, country, city, ip, publicKey) ==
    /\ country = None \/ r.country = country
    /\ city = None \/ r.city = city
    /\ ip = NoneStr \/ r.ip = ip
    /\ publicKey = NoneStr \/ r.public_key = publicKey

\* _build_where_clause: a filter that is None is left out; country is
\* compared through LOWER(), the other columns exactly
RowMatches(r, country, city, ip, publicKey) ==
    /\ country = None \/ LowerName(r.country) = LowerName(country)
    /\ city = None \/ r.city = city
    /\ ip = NoneStr \/ r.ip = ip
    /\ publicKey = NoneStr \/ r.public_key = publicKey

\* DatabaseClient.get_servers: SELECT * FROM servers WHERE ... [LIMIT ? [OFFSET ?]]
\* (`if limit:` adds neither LIMIT nor OFFSET for a limit that is None or 0,
\* both written 0 here; sqlite reads a negative LIMIT as no limit)
GetServers(servers, country, city, ip, publicKey, limit, offset) ==
    LET hits == SelectSeq(servers, LAMBDA r : RowMatches(r, country, city, ip, publicKey))
        skipped == IF offset > 0 THEN SubSeq(hits, offset + 1, Len(hits)) ELSE hits
    IN  IF limit = 0 THEN hits
        ELSE IF limit < 0 THEN skipped
        ELSE Take(skipped, limit)

\* ORDER BY load ASC over idx_load: rows of equal load come in rowid order
RECURSIVE InsertByLoad(_, _)
InsertByLoad(sorted, r) ==
    IF sorted = <<>> THEN <<r>>
    ELSE IF Head(sorted).load <= r.load
    THEN <<Head(sorted)>> \o InsertByLoad(Tail(sorted), r)
    ELSE <<r>> \o sorted

RECURSIVE OrderByLoad(_)
OrderByLoad(rows) ==
    IF rows = <<>> THEN <<>>
    ELSE InsertByLoad(OrderByLoad(SubSeq(rows, 1, Len(rows) - 1)), rows[Len(rows)])

\* _add_load_filter: `load < ?` unless show_all or max_load <= 0
LoadFilter(r, maxLoad, showAll) == showAll \/ maxLoad <= 0 \/ r.load < maxLoad

\* a ranking whose load ceiling is inclusive
BestServersQueryInclusive(servers, country, limit, maxLoad, showAll) ==
    LET hits == SelectSeq(servers,
                    LAMBDA r : /\ RowMatches(r, country, None, NoneStr, NoneStr)
                               /\ (showAll \/ maxLoad <= 0 \/ r.load <= maxLoad))
        ranked == OrderByLoad(hits)
    IN  IF limit > 0 THEN Take(ranked, limit) ELSE ranked

\* the query of get_best_servers:
\* SELECT * FROM servers [WHERE ...] ORDER BY load ASC [LIMIT ?]
BestServersQuery(servers, country, limit, maxLoad, showAll) ==
    LET hits == SelectSeq(servers,
                    LAMBDA r : /\ RowMatches(r, country, None, NoneStr, NoneStr)
                               /\ LoadFilter(r, maxLoad, showAll))
        ranked == OrderByLoad(hits)
    IN  IF limit > 0 THEN Take(ranked, limit) ELSE ranked

NotFound == [server |-> PyNone, method |-> None]

\* a lookup that tries the public key before the endpoint address
FindServerInDbKeyFirst(details, servers, queryFails) ==
    LET byIp == GetServers(servers, None, None, details.endpoint, NoneStr, 1, 0)
        byKey == GetServers(servers, None, None, NoneStr, details.public_key, 1, 0)
    IN  IF queryFails THEN NotFound
        ELSE IF Truthy(details.public_key) /\ byKey # <<>>
        THEN [server |-> byKey[1], method |-> "public_key"]
        ELSE IF Truthy(details.endpoint) /\ byIp # <<>>
        THEN [server |-> byIp[1], method |-> "ip"]
        ELSE NotFound

\* _find_server_in_db(details, db): by endpoint address first, by public key
\* only if that found nothing; an exception of a query is logged and the
\* function returns what it has, which is (None, None)
FindServerInDb(details, servers, queryFails) ==
    LET byIp == GetServers(servers, None, None, details.endpoint, NoneStr, 1, 0)
        byKey == GetServers(servers, None, None, NoneStr, details.public_key, 1, 0)
    IN  IF queryFails THEN NotFound
        ELSE IF Truthy(details.endpoint) /\ byIp # <<>>
        THEN [server |-> byIp[1], method |-> "ip"]
        ELSE IF Truthy(details.public_key) /\ byKey # <<>>
        THEN [server |-> byKey[1], method |-> "public_key"]
        ELSE NotFound

\* ================================================================ status check
\* WGStatusReport(is_connected=...) with its optional fields unset
StatusReport(connected) ==
    [is_connected |-> connected, interface_details |-> PyNone,
     app_server_info |-> PyNone, raw_unmatched_details |-> PyNone]

ConnectedServerAppInfo(rec, details, method) ==
    [country |-> rec.country, city |-> rec.city, load |-> rec.load,
     hostname |-> rec.hostname, endpoint |-> details.endpoint,
     latest_handshake |-> details.latest_handshake,
     transfer |-> details.transfer, found_by |-> method]

\* `if interface.startswith('interface: wg0')` over the blocks of `wg show`
Wg0IsUp(blocks) ==
    \E i \in 1..Len(blocks) : StartsWith(blocks[i], <<"interface", ":", " ", "wg0">>)

\* what check_wireguard_status does with the parsed details
\* (db: connectFails, queryFails, servers)
Reconcile(details, db) ==
    LET found == FindServerInDb(details, db.servers, db.queryFails)
        base == [StatusReport(TRUE) EXCEPT !.interface_details = details]
    IN  IF details = NoDetails
        THEN [StatusReport(TRUE) EXCEPT !.interface_details = PyNone]
        ELSE IF db.connectFails
        THEN StatusReport(FALSE)
        ELSE IF found.server # PyNone
        THEN [base EXCEPT !.app_server_info =
                  ConnectedServerAppInfo(found.server, details, found.method)]
        ELSE [base EXCEPT !.raw_unmatched_details = details]

\* check_wireguard_status: list and show are the two subprocess.run calls
\* (exc: the call raised; rc: the exit status; stdout).  The exit status of
\* the second call is not looked at.
CheckWireguardStatus(list, show, db) ==
    IF list.exc \/ list.rc # 0 \/ ~Wg0IsUp(list.stdout) THEN StatusReport(FALSE)
    ELSE IF show.exc THEN StatusReport(FALSE)
    ELSE Reconcile(ParseWgInterfaceOutput(show.stdout), db)

\* --- inputs ---------------------------------------------------------------
\* servers per inventory of the status check
MaxServers == 2

StoredRecords ==
    { ServerRecord(Row("h1", <<"a1">>, "France", "10", <<"K1">>)),
      ServerRecord(Row("h2", <<"a2">>, "france", "30", <<"K2">>)),
      ServerRecord(Row("h3", <<"a1">>, "Spain",  "90", <<"k1">>)),
      ServerRecord(Row("h4", <<"a3">>, "Spain",  "30", <<>>)) }

\* tables the store can hold: no two rows share a hostname
Inventories ==
    {t \in SeqsUpTo(StoredRecords, MaxServers) :
        \A i, j \in 1..Len(t) : i # j => t[i].hostname # t[j].hostname}

\* stdout of `wg show`: its blocks (separated by an empty line)
Iface(name) == <<"interface", ":", " ">> \o name
ListOutputs ==
    { <<>>, <<Iface(<<"wg1">>)>>, <<Iface(<<"wg0">>)>>,
      <<Iface(<<"wg1">>), Iface(<<"wg0">>)>>, <<Iface(<<"wg0", "1">>)>> }

Called(exc, rc, out) == [exc |-> exc, rc |-> rc, stdout |-> out]
NotCalled == [exc |-> FALSE, rc |-> 0, stdout |-> <<>>, skipped |-> TRUE]

ListCalls ==
    {Called(TRUE, 0, <<>>), Called(FALSE, 1, <<>>)}
        \cup {Called(FALSE, 0, o) : o \in ListOutputs}

\* lines of `wg show wg0`
PeerLines ==
    { <<"peer", ":", " ", "K1">>, <<"peer", ":", " ", "k1">>,
      <<"peer", ":", " ", "K2">>, <<"peer", ":">> }
EndpointLines ==
    { <<" ", " ", "endpoint", ":", " ", "a1", ":", "51820">>,
      <<" ", " ", "endpoint", ":", " ", "a2">>,
      <<" ", " ", "endpoint", ":", " ", "a9", ":", "51820">>,
      <<" ", " ", "endpoint", ":", " ", "[2001", ":", "db8", "]", ":", "51820">> }
HandshakeLines ==
    { <<" ", " ", "latest", " ", "handshake", ":", " ", "1", " ", "minute", ",",
        " ", "30", " ", "seconds", " ", "ago">> }
TransferLines ==
    { <<" ", " ", "transfer", ":", " ", "1", " ", "KiB", " ", "received", ",",
        " ", "2", " ", "KiB", " ", "sent">>,
      <<" ", " ", "transfer", ":", " ", "received", " ", "sent">>,
      <<" ", " ", "transfer", ":", " ", "1", ",", "024", " ", "B", " ",
        "received", ",", " ", "2", " ", "B", " ", "sent">> }

\* zero or one line of a kind
Opt(S) == {<<>>} \cup {<<l>> : l \in S}

\* stdout of `wg show wg0`: the interface line, then the peer's lines
ShowOutputs ==
    { <<<<>>>> } \cup
    { <<Iface(<<"wg0">>)>> \o p \o e \o h \o t :
        p \in Opt(PeerLines), e \in Opt(EndpointLines),
        h \in Opt(HandshakeLines), t \in Opt(TransferLines) }

ShowCalls ==
    {Called(TRUE, 0, <<<<>>>>), Called(FALSE, 1, <<<<>>>>)}
        \cup {Called(FALSE, 0, o) : o \in ShowOutputs}

\* the store: cannot be opened; opens but fails the query (no such table,
\* I/O error); answers
DbCalls == {"connect fails", "query fails", "ok"}

\* DatabaseClient(): the default db_path of __init__
StatusDbPath == "./db/servers.db"

\* the records in the file the status check opens: the inventory of the
\* refresh when database.path of the config names that file, and else the
\* content of another file
StatusStore ==
    IF cfgMem.database.path.s = StatusDbPath THEN dbServers ELSE stDb

DbOf(call) ==
    [connectFails |-> call = "connect fails", queryFails |-> call = "query fails",
     servers |-> StatusStore]

\* details handed to _find_server_in_db
DetailsInputs ==
    { [InitialInfo EXCEPT !.endpoint = e, !.public_key = k] :
        e \in {NoneStr, <<>>, <<"a1">>, <<"a2">>, <<"a9">>},
        k \in {NoneStr, <<>>, <<"K1">>, <<"K2">>, <<"k1">>, <<"K9">>} }

\* no report yet: the check is between its calls
Running == [running |-> TRUE]

StFixed ==
    /\ spc = "idle"
    /\ listCall = NotCalled
    /\ showCall = NotCalled
    /\ dbCall = "not opened"
    /\ report = StatusReport(FALSE)
    /\ findDetails = NoDetails
    /\ findFails = FALSE
    /\ findResult = NotFound

StInit == stDb = <<>> /\ StFixed

\* check_wireguard_status up to the first subprocess.run: `wg show`
ListInterfaces ==
    /\ spc = "idle"
    /\ \E list \in ListCalls :
         /\ listCall' = list
         /\ IF ~list.exc /\ list.rc = 0 /\ Wg0IsUp(list.stdout)
            THEN /\ spc' = "listed"
                 /\ report' = Running
            ELSE /\ spc' = "idle"
                 /\ report' = CheckWireguardStatus(list, NotCalled, DbOf("not opened"))
    /\ showCall' = NotCalled
    /\ dbCall' = "not opened"
    /\ UNCHANGED <<stDb, findDetails, findFails, findResult>>
    /\ UNCHANGED nonStVars

\* the second subprocess.run, `wg show wg0`, and the parse of its stdout
ShowInterface ==
    /\ spc = "listed"
    /\ \E show \in ShowCalls :
         /\ showCall' = show
         /\ IF ~show.exc /\ ParseWgInterfaceOutput(show.stdout) # NoDetails
            THEN /\ spc' = "shown"
                 /\ UNCHANGED report
            ELSE /\ spc' = "idle"
                 /\ report' = CheckWireguardStatus(listCall, show, DbOf("not opened"))
    /\ UNCHANGED <<stDb, listCall, dbCall, findDetails, findFails, findResult>>
    /\ UNCHANGED nonStVars

\* with DatabaseClient() as db: the lookup, and the report is returned
LookupServer ==
    /\ spc = "shown"
    /\ \E db \in DbCalls :
         /\ dbCall' = db
         /\ report' = CheckWireguardStatus(listCall, showCall, DbOf(db))
    /\ spc' = "idle"
    /\ UNCHANGED <<stDb, listCall, showCall, findDetails, findFails, findResult>>
    /\ UNCHANGED nonStVars

\* one call of _find_server_in_db
FindServer ==
    /\ \E d \in DetailsInputs, f \in BOOLEAN :
         /\ findDetails' = d
         /\ findFails' = f
         /\ findResult' = FindServerInDb(d, stDb, f)
    /\ UNCHANGED <<stDb, listCall, showCall, dbCall, report, spc>>
    /\ UNCHANGED nonStVars

\* ================================================================ parser
\* `endpoint: H:P` as wg prints it (an IPv6 address comes in brackets)
EndpointText(host, port) == <<"endpoint", ":", " ">> \o host \o <<":">> \o port

EndpointHosts == { <<"a1">>, <<"a9">>, <<"[2001", ":", "db8", "]">> }
EndpointPorts == { <<"51820">> }

\* texts handed to the parser: the outputs of `wg show wg0`, and texts that
\* hold an endpoint line only
ParseInputs ==
    ShowOutputs
        \cup {<<e>> : e \in EndpointLines}
        \cup {<<EndpointText(h, p)>> : h \in EndpointHosts, p \in EndpointPorts}

Pending == [kind |-> "pending"]

PFixed == parseIn = <<<<>>>> /\ parseOut = Pending

\* one call of _parse_wg_interface_output
Parse ==
    /\ parseOut = Pending
    /\ parseOut' = ParseWgInterfaceOutput(parseIn)
    /\ UNCHANGED parseIn
    /\ UNCHANGED nonPVars

\* ================================================================ read paths
\* records per inventory the reads run on
MaxStored == 4

Rec(h, ip, country, city, load, key) ==
    [ServerRecord(Row(h, ip, country, load, key)) EXCEPT !.city = city]

QueryRecords ==
    { Rec("h1", <<"a1">>, "France", "Paris",  "30", <<"K1">>),
      Rec("h2", <<"a2">>, "france", "Paris",  "10", <<"K2">>),
      Rec("h3", <<"a1">>, "Spain",  "Madrid", "90", <<"K1">>),
      Rec("h4", <<"a2">>, "France", "Lyon",   "10", <<>>) }

\* tables a refresh can leave: no two rows share a hostname
QueryInventories ==
    {t \in SeqsUpTo(QueryRecords, MaxStored) :
        \A i, j \in 1..Len(t) : i # j => t[i].hostname # t[j].hostname}

\* arguments of the reads
CountryArgs == {None, "france", "Spain", "Italy"}
MaxLoadArgs == {-1, 0, 10, 11, 31, 100}
LimitArgs == {-1, 0, 1, 2, 3}
CityArgs == {None, "Paris", "Madrid"}
IpArgs == {NoneStr, <<"a1">>, <<"a2">>}
KeyArgs == {NoneStr, <<"K1">>, <<>>}
OffsetArgs == {-1, 0, 1, 2}

NoCall == [op |-> "none"]
Returned(rows) == [raised |-> FALSE, rows |-> rows]
Raised == [raised |-> TRUE, rows |-> <<>>]

\* the store as a reader can observe it
StoreState == [exists |-> dbExists, tables |-> dbTables, servers |-> dbServers,
               marker |-> dbMarker]

QFixed ==
    /\ qpc = "idle"
    /\ qCall = NoCall
    /\ qStore = "not opened"
    /\ qResult = Returned(<<>>)
    /\ qBefore = [exists |-> FALSE, tables |-> {}, servers |-> <<>>, marker |-> 0]

\* the store after one successful refresh that supplied the rows of t
RefreshedStore(t) ==
    /\ dbExists = TRUE
    /\ dbTables = {"servers", "metadata"}
    /\ dbServers = t
    /\ dbMarker = 1
    /\ dbGen = 1
    /\ txServers = t
    /\ txMarker = 1
    /\ rpc = "idle"
    /\ batch = <<>>
    /\ rowIdx = Len(t) + 1
    /\ chunk = <<>>
    /\ clock = 1
    /\ snapServers = <<>>
    /\ snapMarker = 0
    /\ rOutcome = "returned"
    /\ failStep = "none"
    /\ counts = <<Len(t), 0>>
    /\ srcPlan = 0
    /\ fetchCalls = 1

\* get_best_servers: sqlite3.connect creates the file when it is missing;
\* any exception (the connect, a missing table, a read error) gives []
BestServers ==
    /\ qpc = "idle"
    /\ rpc = "idle"
    /\ \E country \in CountryArgs, limit \in LimitArgs, maxLoad \in MaxLoadArgs,
          showAll \in BOOLEAN, store \in {"ok", "connect fails", "read fails"} :
         /\ qCall' = [op |-> "get_best_servers", country |-> country, limit |-> limit,
                      max_load |-> maxLoad, show_all |-> showAll]
         /\ qStore' = store
         /\ dbExists' = (dbExists \/ store # "connect fails")
         /\ qResult' = IF store = "ok" /\ "servers" \in dbTables
                       THEN Returned(BestServersQuery(dbServers, country, limit,
                                                      maxLoad, showAll))
                       ELSE Returned(<<>>)
    /\ qBefore' = StoreState
    /\ qpc' = "done"
    /\ UNCHANGED <<dbTables, dbServers, dbMarker, dbGen, txServers, txMarker, rpc,
                   batch, rowIdx, chunk, clock, snapServers, snapMarker, rOutcome,
                   failStep, counts, srcPlan, fetchCalls>>
    /\ UNCHANGED nonQVars

\* DatabaseClient.get_servers on an open client: sqlite3.Error is re-raised
QueryServers ==
    /\ qpc = "idle"
    /\ rpc = "idle"
    /\ dbExists
    /\ \E country \in CountryArgs, city \in CityArgs, ip \in IpArgs,
          key \in KeyArgs, limit \in LimitArgs, offset \in OffsetArgs,
          store \in {"ok", "read fails"} :
         /\ qCall' = [op |-> "get_servers", country |-> country, city |-> city,
                      ip |-> ip, public_key |-> key, limit |-> limit,
                      offset |-> offset]
         /\ qStore' = store
         /\ qResult' = IF store = "ok" /\ "servers" \in dbTables
                       THEN Returned(GetServers(dbServers, country, city, ip, key,
                                                limit, offset))
                       ELSE Raised
    /\ qBefore' = StoreState
    /\ qpc' = "done"
    /\ UNCHANGED invVars
    /\ UNCHANGED nonQVars

QueryNext ==
    \/ BestServers
    \/ QueryServers

\* ================================================================ ConfigManager
\* Python values are tagged with their type, so that an int and its text, or
\* a network object and its text, are different values.
PyStr(t) == [py |-> "str", s |-> t]
PyInt(t) == [py |-> "int", s |-> t]
PyNet(t) == [py |-> "net", s |-> t]
PyAddr(t) == [py |-> "addr", s |-> t]
PyList(t) == [py |-> "list", s |-> t]

KeyPath == "config/wireguard.key"
DefaultClientIp == "10.5.0.2/32"
DefaultDns == "192.168.68.14"

IntTexts == {"25", "100", "75", "0"}
NetTexts == {"10.5.0.2/32", "10.5.0.3/32"}
AddrTexts == {"192.168.68.14"}

\* the schema of AppConfig: section -> key -> field type
Schema ==
    [wireguard |-> [private_key_file |-> "str", client_ip |-> "net",
                    dns |-> "addr", persistent_keepalive |-> "int"],
     database  |-> [path |-> "str", max_load |-> "int", default_limit |-> "int"],
     output    |-> [config_dir |-> "str", config_wg_file |-> "str"]]

Sections == DOMAIN Schema

\* pydantic's validation of one field (lax mode): the value it stores, or
\* None when the input is rejected
ValidateField(type, v) ==
    CASE type = "str"  -> IF v.py = "str" THEN v ELSE PyNone
      [] type = "int"  -> IF v.py = "int" THEN v
                          ELSE IF v.py = "str" /\ v.s \in IntTexts THEN PyInt(v.s)
                          ELSE PyNone
      [] type = "net"  -> IF v.py = "net" THEN v
                          ELSE IF v.py = "str" /\ v.s \in NetTexts THEN PyNet(v.s)
                          ELSE PyNone
      [] type = "addr" -> IF v.py = "addr" THEN v
                          ELSE IF v.py = "str" /\ v.s \in AddrTexts THEN PyAddr(v.s)
                          ELSE PyNone

\* AppConfig.model_validate(d): d is a dict of sections; a section that is
\* missing (PyNone) or a field that is missing or rejected fails validation
DictIsValid(d) ==
    \A sec \in Sections :
        /\ d[sec] # PyNone
        /\ \A k \in DOMAIN Schema[sec] :
              /\ d[sec][k] # PyNone
              /\ ValidateField(Schema[sec][k], d[sec][k]) # PyNone

ModelValidate(d) ==
    [sec \in Sections |->
        [k \in DOMAIN Schema[sec] |-> ValidateField(Schema[sec][k], d[sec][k])]]

\* AppConfig.model_dump(): the field values as Python objects
ModelDump(cfg) == cfg

\* AppConfig(...) as the provisioning code builds it
AppConfig(clientIp, maxLoad) ==
    [wireguard |-> [private_key_file |-> PyStr(KeyPath), client_ip |-> clientIp,
                    dns |-> PyStr(DefaultDns), persistent_keepalive |-> PyInt("25")],
     database  |-> [path |-> PyStr("servers.db"), max_load |-> maxLoad,
                    default_limit |-> PyInt("0")],
     output    |-> [config_dir |-> PyStr("/etc/wireguard"),
                    config_wg_file |-> PyStr("/etc/wireguard/wg0.conf")]]

\* ConfigManager.DEFAULT_CONFIG, validated as __init__ does
DefaultConfig == ModelValidate(AppConfig(PyStr(DefaultClientIp), PyInt("100")))

\* repr() of an address object
ReprText(t) ==
    CASE t = "192.168.68.14" -> "IPv4Address('192.168.68.14')"
      [] OTHER               -> "IPv4Address(...)"

\* toml.dump of one value: str and int have encoders; any other object is
\* written as a list if it is iterable (a network object iterates over its
\* addresses) and else as the text of its repr()
TomlDumpValue(v) ==
    CASE v.py = "str"  -> v
      [] v.py = "int"  -> v
      [] v.py = "net"  -> PyList(v.s)
      [] v.py = "addr" -> PyStr(ReprText(v.s))
      [] OTHER         -> v

TomlDump(d) ==
    [sec \in Sections |-> [k \in DOMAIN d[sec] |-> TomlDumpValue(d[sec][k])]]

\* contents of config.toml
Absent == [kind |-> "absent"]
Empty == [kind |-> "empty"]
Torn == [kind |-> "torn"]
TomlFile(doc) == [kind |-> "toml", doc |-> doc]

EmptyDict == [sec \in Sections |-> PyNone]

\* toml.load: the dict, or PyNone for TomlDecodeError (a file cut inside a line)
TomlLoad(file) ==
    CASE file.kind = "toml"  -> file.doc
      [] file.kind = "empty" -> EmptyDict
      [] OTHER               -> PyNone

\* config_dict[section][key] = value, as far as model_validate reads it: a
\* section or key outside the schema is an extra that validation ignores
DictSet(d, section, key, value) ==
    IF section \in Sections /\ key \in DOMAIN Schema[section]
    THEN [d EXCEPT ![section][key] = value]
    ELSE d

\* a set that assigns the changed value before it validates
SetInMemoryAssignFirst(mem, section, key, value) ==
    LET d == DictSet(ModelDump(mem), section, key, value)
    IN  IF DictIsValid(d)
        THEN [raised |-> FALSE, config |-> ModelValidate(d)]
        ELSE [raised |-> TRUE, config |-> d]

\* ConfigManager.set up to the call of save(): validation raises before
\* self.config is assigned
SetInMemory(mem, section, key, value) ==
    LET d == DictSet(ModelDump(mem), section, key, value)
    IN  IF DictIsValid(d)
        THEN [raised |-> FALSE, config |-> ModelValidate(d)]
        ELSE [raised |-> TRUE, config |-> mem]

\* a provisioning that restricts the key file only after the config is written
ProvStepsChmodLast == <<"write_key", "build_config", "write_config", "chmod_key">>

\* the order of the provisioning steps of _create_initial_config and
\* _auto_configure_from_env
ProvSteps == <<"write_key", "chmod_key", "build_config", "write_config">>

\* PRIVATE_KEY_PERMISSIONS (0o600) and the mode a new file gets from
\* open(..., 'w') under the process umask
OwnerOnly == "owner"
NewFileModes == {"owner", "open"}

\* inputs
SetInputs ==
    { <<"wireguard", "client_ip", PyStr("10.5.0.3/32")>>,
      <<"wireguard", "client_ip", PyStr("999.999.999.999")>>,
      <<"database", "max_load", PyInt("75")>>,
      <<"database", "max_load", PyStr("abc")>>,
      <<"nonexistent", "key", PyStr("value")>> }
ClientIpInputs == {PyStr("10.5.0.2/32"), PyStr("10.5.0.3/32"), PyStr("999.999.999.999")}
KeyInputs == {"key1", "key2"}

\* a config.toml written by hand, as the test fixtures write it: every value
\* a plain string or number
HandWrittenConfig == TomlFile(AppConfig(PyStr(DefaultClientIp), PyInt("100")))

\* the call an operation was begun with: save() takes no argument, set its
\* three, and load_or_create is told apart by whether it follows a save()
\* that returned
NoArgs == [kind |-> "none"]
SetArgs(section, key, value) ==
    [kind |-> "set", section |-> section, key |-> key, value |-> value]
LoadArgs(afterSave) == [kind |-> "load", afterSave |-> afterSave]

\* a fresh checkout, or an installation set up earlier; mem is the AppConfig
\* the ConfigManager holds
CfgInitWith(mem) ==
    /\ \/ /\ cfgDir = "absent"
          /\ cfgFile = Absent
          /\ cfgFileMode = "none"
          /\ keyFile = [kind |-> "absent"]
       \/ /\ cfgDir = OwnerOnly
          /\ cfgFile = HandWrittenConfig
          /\ cfgFileMode \in NewFileModes
          /\ keyFile = [kind |-> "file", text |-> "key1", mode |-> OwnerOnly]
    /\ cfgMem = mem
    /\ cpc = "idle"
    /\ provIdx = 1
    /\ provMode = "interactive"
    /\ cOp = "none"
    /\ cResult = "none"
    /\ memBefore = mem
    /\ cCall = NoArgs
    /\ fileBefore = cfgFile
    /\ provRan = FALSE

CfgInit == CfgInitWith(DefaultConfig)

\* an operation begins: remember what it found
Begin(op, call) ==
    /\ cpc = "idle"
    /\ cOp' = op
    /\ cCall' = call
    /\ memBefore' = cfgMem
    /\ fileBefore' = cfgFile

\* an operation ends, returning or raising
End(result) ==
    /\ cpc' = "idle"
    /\ cResult' = result
    /\ provIdx' = 1

\* config_dir.mkdir(parents=True, exist_ok=True, mode=CONFIG_DIR_PERMISSIONS)
Mkdir == IF cfgDir = "absent" THEN OwnerOnly ELSE cfgDir

\* ConfigManager.get(section, key): model_dump().get(section, {}).get(key),
\* None for a section or a key the dumped model does not hold
Get(mem, section, key) ==
    IF section \in DOMAIN ModelDump(mem) /\ key \in DOMAIN ModelDump(mem)[section]
    THEN ModelDump(mem)[section][key]
    ELSE PyNone

\* --- save -----------------------------------------------------------------
\* ConfigManager.save() called by the application
StartSave ==
    /\ Begin("save", NoArgs)
    /\ cpc' = "save:mkdir"
    /\ cResult' = "running"
    /\ provRan' = FALSE
    /\ UNCHANGED <<cfgDir, cfgFile, cfgFileMode, keyFile, cfgMem, provIdx, provMode>>
    /\ UNCHANGED nonCfgVars

\* ConfigManager.set(section, key, value)
SetValue ==
    /\ \E in \in SetInputs :
         LET r == SetInMemory(cfgMem, in[1], in[2], in[3])
         IN  /\ Begin("set", SetArgs(in[1], in[2], in[3]))
             /\ cfgMem' = r.config
             /\ IF r.raised
                THEN End("ValidationError")
                ELSE /\ cpc' = "save:mkdir"
                     /\ cResult' = "running"
                     /\ UNCHANGED provIdx
    /\ provRan' = FALSE
    /\ UNCHANGED <<cfgDir, cfgFile, cfgFileMode, keyFile, provMode>>
    /\ UNCHANGED nonCfgVars

\* save: self.config_dir.mkdir(...); PermissionError when it cannot be made
SaveMkdir ==
    /\ cpc = "save:mkdir"
    /\ \/ /\ cfgDir' = Mkdir
          /\ cpc' = "save:open"
          /\ UNCHANGED <<cResult, provIdx>>
       \/ /\ cfgDir = "absent"
          /\ End("PermissionError")
          /\ UNCHANGED cfgDir
    /\ UNCHANGED <<cfgFile, cfgFileMode, keyFile, cfgMem, provMode, cOp,
                   memBefore, fileBefore, cCall, provRan>>
    /\ UNCHANGED nonCfgVars

\* save: open(self.config_file, 'w') truncates the file in place, or raises
\* PermissionError
SaveOpen ==
    /\ cpc = "save:open"
    /\ \/ /\ cfgFile' = Empty
          /\ \E m \in NewFileModes :
                cfgFileMode' = IF cfgFile = Absent THEN m ELSE cfgFileMode
          /\ cpc' = "save:write"
          /\ UNCHANGED <<cResult, provIdx>>
       \/ /\ End("PermissionError")
          /\ UNCHANGED <<cfgFile, cfgFileMode>>
    /\ UNCHANGED <<cfgDir, keyFile, cfgMem, provMode, cOp, memBefore,
                   fileBefore, cCall, provRan>>
    /\ UNCHANGED nonCfgVars

\* save: toml.dump(self.config.model_dump(), f); f.flush(); os.fsync(); close
SaveWrite ==
    /\ cpc = "save:write"
    /\ cfgFile' = TomlFile(TomlDump(ModelDump(cfgMem)))
    /\ cpc' = "save:chmod"
    /\ UNCHANGED <<cfgDir, cfgFileMode, keyFile, cfgMem, provIdx, provMode, cOp,
                   cResult, memBefore, fileBefore, cCall, provRan>>
    /\ UNCHANGED nonCfgVars

\* save: self.config_file.chmod(PRIVATE_KEY_PERMISSIONS) inside
\* try/except (OSError, AttributeError): pass; return
SaveChmod ==
    /\ cpc = "save:chmod"
    /\ \/ cfgFileMode' = OwnerOnly
       \/ UNCHANGED cfgFileMode
    /\ End("ok")
    /\ UNCHANGED <<cfgDir, cfgFile, keyFile, cfgMem, provMode, cOp, memBefore,
                   fileBefore, cCall, provRan>>
    /\ UNCHANGED nonCfgVars

\* --- load_or_create and provisioning --------------------------------------
\* a file that toml.load or model_validate rejects
FileIsInvalid(file) ==
    /\ file # Absent
    /\ \/ TomlLoad(file) = PyNone
       \/ ~DictIsValid(TomlLoad(file))

\* a load_or_create that treats an unreadable config like a missing one
NeedsProvisioningOrInvalid(file) == file = Absent \/ FileIsInvalid(file)

\* load_or_create: `if not self.config_file.exists()`
NeedsProvisioning(file) == file = Absent

\* load_or_create: mkdir, then _create_initial_config if the file is absent
StartLoadOrCreate ==
    /\ Begin("load_or_create", LoadArgs(cOp = "save" /\ cResult = "ok"))
    /\ \/ /\ cfgDir' = Mkdir
          /\ cResult' = "running"
          /\ IF NeedsProvisioning(cfgFile)
             THEN /\ cpc' = "prov"
                  /\ provIdx' = 1
                  /\ \E m \in {"interactive", "env"} : provMode' = m
             ELSE /\ cpc' = "load:parse"
                  /\ UNCHANGED <<provIdx, provMode>>
       \/ /\ cfgDir = "absent"
          /\ End("PermissionError")
          /\ UNCHANGED <<cfgDir, provMode>>
    /\ provRan' = (cpc' = "prov")
    /\ UNCHANGED <<cfgFile, cfgFileMode, keyFile, cfgMem>>
    /\ UNCHANGED nonCfgVars

\* the except branch of the interactive loop: unlink the key file and the
\* config file, then ask again
ProvCleanup ==
    /\ keyFile' = [kind |-> "absent"]
    /\ cfgFile' = Absent
    /\ cfgFileMode' = "none"
    /\ provIdx' = 1
    /\ UNCHANGED <<cpc, cResult>>

\* after a step: the next one, or back in load_or_create to re-open the file
ProvAdvance ==
    /\ IF provIdx < Len(ProvSteps)
       THEN /\ provIdx' = provIdx + 1
            /\ UNCHANGED cpc
       ELSE /\ provIdx' = 1
            /\ cpc' = "load:parse"
    /\ UNCHANGED cResult

\* a provisioning step raised: the interactive loop cleans up and retries,
\* _auto_configure_from_env re-raises
ProvRaise(error) ==
    IF provMode = "interactive"
    THEN ProvCleanup
    ELSE /\ End(error)
         /\ UNCHANGED <<keyFile, cfgFile, cfgFileMode>>

\* key_file.write_text(private_key): a new file gets the umask's mode, an
\* existing one keeps its mode
ProvWriteKey ==
    /\ cpc = "prov"
    /\ ProvSteps[provIdx] = "write_key"
    /\ \/ /\ \E k \in KeyInputs, m \in NewFileModes :
                keyFile' = [kind |-> "file", text |-> k,
                            mode |-> IF keyFile.kind = "file" THEN keyFile.mode ELSE m]
          /\ ProvAdvance
          /\ UNCHANGED <<cfgFile, cfgFileMode>>
       \/ ProvRaise("OSError")
    /\ UNCHANGED <<cfgDir, cfgMem, provMode, cOp, memBefore, fileBefore, cCall, provRan>>
    /\ UNCHANGED nonCfgVars

\* key_file.chmod(PRIVATE_KEY_PERMISSIONS)
ProvChmodKey ==
    /\ cpc = "prov"
    /\ ProvSteps[provIdx] = "chmod_key"
    /\ keyFile.kind = "file"
    /\ keyFile' = [keyFile EXCEPT !.mode = OwnerOnly]
    /\ ProvAdvance
    /\ UNCHANGED <<cfgDir, cfgFile, cfgFileMode, cfgMem, provMode, cOp,
                   memBefore, fileBefore, cCall, provRan>>
    /\ UNCHANGED nonCfgVars

\* self.config = AppConfig(...): pydantic's ValidationError is a ValueError
ProvBuildConfig ==
    /\ cpc = "prov"
    /\ ProvSteps[provIdx] = "build_config"
    /\ \E ip \in ClientIpInputs :
         LET d == AppConfig(ip, PyInt("100"))
         IN  IF DictIsValid(d)
             THEN /\ cfgMem' = ModelValidate(d)
                  /\ ProvAdvance
                  /\ UNCHANGED <<keyFile, cfgFile, cfgFileMode>>
             ELSE /\ ProvRaise("ValidationError")
                  /\ UNCHANGED cfgMem
    /\ UNCHANGED <<cfgDir, provMode, cOp, memBefore, fileBefore, cCall, provRan>>
    /\ UNCHANGED nonCfgVars

\* with open(self.config_file, 'w') as f: toml.dump(self.config.model_dump(), f)
ProvWriteConfig ==
    /\ cpc = "prov"
    /\ ProvSteps[provIdx] = "write_config"
    /\ \/ /\ cfgFile' = TomlFile(TomlDump(ModelDump(cfgMem)))
          /\ \E m \in NewFileModes :
                cfgFileMode' = IF cfgFile = Absent THEN m ELSE cfgFileMode
          /\ ProvAdvance
          /\ UNCHANGED keyFile
       \/ ProvRaise("OSError")
    /\ UNCHANGED <<cfgDir, cfgMem, provMode, cOp, memBefore, fileBefore, cCall, provRan>>
    /\ UNCHANGED nonCfgVars

\* load_or_create: toml.load(f); self.config = AppConfig.model_validate(...)
LoadParse ==
    /\ cpc = "load:parse"
    /\ LET d == TomlLoad(cfgFile)
       IN  IF d = PyNone
           THEN /\ End("TomlDecodeError")
                /\ UNCHANGED cfgMem
           ELSE IF ~DictIsValid(d)
           THEN /\ End("ValidationError")
                /\ UNCHANGED cfgMem
           ELSE /\ End("ok")
                /\ cfgMem' = ModelValidate(d)
    /\ UNCHANGED <<cfgDir, cfgFile, cfgFileMode, keyFile, provMode, cOp,
                   memBefore, fileBefore, cCall, provRan>>
    /\ UNCHANGED nonCfgVars

\* --- abrupt termination ---------------------------------------------------
\* the process dies inside an operation; the next process starts from the
\* files as they are and the default in-memory config.  A file that is open
\* for writing and not yet flushed is left empty or cut short.
WritingConfig ==
    \/ cpc = "save:write"
    \/ cpc = "prov" /\ ProvSteps[provIdx] = "write_config"

ProcessKilled ==
    /\ cpc # "idle"
    /\ \/ UNCHANGED <<cfgFile, cfgFileMode>>
       \/ /\ WritingConfig
          /\ \E c \in {Empty, Torn}, m \in NewFileModes :
                /\ cfgFile' = c
                /\ cfgFileMode' = IF cfgFile = Absent THEN m ELSE cfgFileMode
    /\ cfgMem' = DefaultConfig
    /\ End("killed")
    /\ UNCHANGED <<cfgDir, keyFile, provMode, cOp, memBefore, fileBefore, cCall, provRan>>
    /\ UNCHANGED nonCfgVars

CfgNext ==
    \/ StartSave
    \/ SetValue
    \/ SaveMkdir
    \/ SaveOpen
    \/ SaveWrite
    \/ SaveChmod
    \/ StartLoadOrCreate
    \/ ProvWriteKey
    \/ ProvChmodKey
    \/ ProvBuildConfig
    \/ ProvWriteConfig
    \/ LoadParse
    \/ ProcessKilled

\* ================================================================ tunnel
\* the [Peer] section that WireGuardConfig.from_server(server, ...).generate()
\* writes: PublicKey and Endpoint of the server
WireGuardConfig(server) == [public_key |-> server.public_key, endpoint |-> server.ip]

NoConf == [absent |-> TRUE]
NoConnect == [arg |-> "none"]

\* the parameters of DatabaseClient.get_servers, apart from self
GetServersParams == {"country", "city", "ip", "public_key", "limit", "offset"}

\* --connect [SERVER]: 'auto' when no SERVER is given
ConnectArgs == {"auto", "h1", "h2", "h9"}

\* no apply and no cli_connect has run
TIdle ==
    /\ tpc = "idle"
    /\ tSel = PyNone
    /\ tReport = FALSE
    /\ tDown = "none"
    /\ tAnswer = "none"
    /\ conCall = NoConnect

TFixed == TIdle /\ ifaceUp = FALSE /\ wgConf = NoConf

\* cli_connect(server_arg, config_manager), the whole call.  cp: `sudo cp`
\* exits with 0; up: `wg-quick up` exits with 0, which it does not when wg0
\* is up already.  A keyword that get_servers does not declare is a TypeError.
CliConnect ==
    /\ tpc = "idle"
    /\ conCall = NoConnect
    /\ \E arg \in ConnectArgs, cp \in BOOLEAN, up \in BOOLEAN :
         LET kwargs == {"hostname", "limit"}
             found == IF arg = "auto"
                      THEN Returned(BestServersQuery(dbServers, None, 1, 50, FALSE))
                      ELSE IF kwargs \subseteq GetServersParams
                      THEN Returned(GetServers(dbServers, None, None, NoneStr, NoneStr, 1, 0))
                      ELSE Raised
             copied == ~found.raised /\ found.rows # <<>> /\ keyFile.kind = "file" /\ cp
             out == IF found.raised THEN "error"
                    ELSE IF found.rows = <<>>
                    THEN (IF arg = "auto" THEN "no servers" ELSE "not found")
                    ELSE IF ~copied THEN "error"
                    ELSE IF up THEN "connected"
                    ELSE "failed"
         IN  /\ up => ~ifaceUp
             /\ conCall' = [arg |-> arg, cp |-> cp, up |-> up, out |-> out,
                            before |-> wgConf]
             /\ wgConf' = IF copied THEN WireGuardConfig(found.rows[1]) ELSE wgConf
             /\ ifaceUp' = (ifaceUp \/ out = "connected")
    /\ UNCHANGED <<tpc, tSel, tReport, tDown, tAnswer>>
    /\ UNCHANGED nonTunVars

\* select_vpn_endpoint / generate_config_from_list up to the selection: the
\* list of show_top_servers, and the server the operator picks (or none)
SelectServer ==
    /\ tpc = "idle"
    /\ conCall = NoConnect
    /\ LET servers == BestServersQuery(dbServers, None, 10, 100, FALSE)
       IN  \/ \E i \in 1..Len(servers) :
                /\ tSel' = servers[i]
                /\ tpc' = "selected"
           \/ /\ tSel' = PyNone
              /\ tpc' = "done"
    /\ UNCHANGED <<ifaceUp, wgConf, tReport, tDown, tAnswer, conCall>>
    /\ UNCHANGED nonTunVars

\* _handle_pre_apply_disconnect: the status check (its `wg show` lists wg0
\* exactly when wg0 is up, unless the call fails), then `wg-quick down wg0`
\* when the report says connected, and `Continue anyway?` when that fails
HandlePreApplyDisconnect ==
    /\ tpc = "selected"
    /\ \E list \in ListCalls, show \in ShowCalls, db \in DbCalls :
         /\ \/ list.exc
            \/ list.rc # 0
            \/ ifaceUp <=> \E i \in 1..Len(list.stdout) :
                               list.stdout[i] = Iface(<<"wg0">>)
         /\ tReport' = CheckWireguardStatus(list, show, DbOf(db)).is_connected
    /\ IF tReport'
       THEN \E down \in {"ok", "failed", "raised"}, answer \in {"y", "n"} :
              /\ down = "ok" => ifaceUp
              /\ tDown' = down
              /\ ifaceUp' = (ifaceUp /\ down # "ok")
              /\ tAnswer' = IF down = "ok" THEN "none" ELSE answer
              /\ tpc' = IF down = "ok" \/ answer = "y" THEN "write" ELSE "done"
       ELSE /\ tDown' = "none"
            /\ tAnswer' = "none"
            /\ tpc' = "write"
            /\ UNCHANGED ifaceUp
    /\ UNCHANGED <<wgConf, tSel, conCall>>
    /\ UNCHANGED nonTunVars

\* generate_wireguard_config (get_private_key raises without the key file)
\* and _write_config_sudo (`cp` puts the new content in place, or fails)
WriteConfigSudo ==
    /\ tpc = "write"
    /\ \E cp \in BOOLEAN :
         IF keyFile.kind = "file" /\ cp
         THEN /\ wgConf' = WireGuardConfig(tSel)
              /\ tpc' = "ask"
         ELSE /\ UNCHANGED wgConf
              /\ tpc' = "done"
    /\ UNCHANGED <<ifaceUp, tSel, tReport, tDown, tAnswer, conCall>>
    /\ UNCHANGED nonTunVars

\* `Would you like to connect now?` and _handle_post_apply_connect
HandlePostApplyConnect ==
    /\ tpc = "ask"
    /\ \E connect \in BOOLEAN, up \in BOOLEAN :
         /\ up => ~ifaceUp
         /\ ifaceUp' = (ifaceUp \/ (connect /\ up))
    /\ tpc' = "done"
    /\ UNCHANGED <<wgConf, tSel, tReport, tDown, tAnswer, conCall>>
    /\ UNCHANGED nonTunVars

TunNext ==
    \/ CliConnect
    \/ SelectServer
    \/ HandlePreApplyDisconnect
    \/ WriteConfigSudo
    \/ HandlePostApplyConnect

\* ================================================================ monitor
\* keys the terminal can queue, status checks per run, resizes per run
MaxKeys == 2
MaxPolls == 2
MaxResizes == 1

StopKey == "space"
KeysPressed == {StopKey, "q"}

\* the loop at position pc, nothing pressed, nothing polled
MonAt(pc) ==
    /\ mpc = pc
    /\ keys = <<>>
    /\ termResized = "no"
    /\ resizes = 0
    /\ mStarted = 0
    /\ mReturned = 0
    /\ mExit = "running"
    /\ pressedAt = "none"

MFixed == MonAt("off")

MonRunning == mpc \notin {"off", "exited"}

\* the operator presses a key; the terminal queues it
PressKey ==
    /\ MonRunning
    /\ Len(keys) < MaxKeys
    /\ \E k \in KeysPressed :
         /\ keys' = Append(keys, k)
         /\ pressedAt' = IF k = StopKey /\ pressedAt = "none" THEN mpc ELSE pressedAt
    /\ UNCHANGED <<mpc, termResized, resizes, mStarted, mReturned, mExit>>
    /\ UNCHANGED nonMonVars

\* the operator resizes the terminal
ResizeTerminal ==
    /\ MonRunning
    /\ resizes < MaxResizes
    /\ resizes' = resizes + 1
    /\ \E size \in {"ok", "small"} : termResized' = size
    /\ UNCHANGED <<mpc, keys, mStarted, mReturned, mExit, pressedAt>>
    /\ UNCHANGED nonMonVars

\* top of the loop body: getmaxyx, and handle_resize when the size changed;
\* handle_resize stores the new size, then raises 'Terminal too small' for a
\* small one, which the loop answers with `continue`; create_windows, or the
\* addstr of the handler, can raise a curses.error that leaves the loop
MonCheckResize ==
    /\ mpc = "top"
    /\ termResized' = "no"
    /\ \/ /\ mpc' = IF termResized = "small" THEN "top" ELSE "getch"
          /\ UNCHANGED mExit
       \/ /\ termResized # "no"
          /\ mpc' = "exited"
          /\ mExit' = "error"
    /\ UNCHANGED <<keys, resizes, mStarted, mReturned, pressedAt>>
    /\ UNCHANGED nonMonVars

\* a getch() that treats the stop key like any other key
MonGetchNeverBreaking ==
    /\ mpc = "getch"
    /\ mpc' = "due"
    /\ keys' = IF keys = <<>> THEN keys ELSE Tail(keys)
    /\ UNCHANGED <<termResized, resizes, mStarted, mReturned, mExit, pressedAt>>
    /\ UNCHANGED nonMonVars

\* key = stdscr.getch() (non-blocking: the oldest queued key, or none);
\* `if key == ord(' '): break`
MonGetch ==
    /\ mpc = "getch"
    /\ IF keys # <<>> /\ Head(keys) = StopKey
       THEN /\ mpc' = "exited"
            /\ mExit' = "break"
       ELSE /\ mpc' = "due"
            /\ UNCHANGED mExit
    /\ keys' = IF keys = <<>> THEN keys ELSE Tail(keys)
    /\ UNCHANGED <<termResized, resizes, mStarted, mReturned, pressedAt>>
    /\ UNCHANGED nonMonVars

\* `if current_time - last_update >= update_interval`: true in the first
\* iteration (last_update = 0), later when the interval has passed; the call
\* of check_wireguard_status begins
MonCheckDue ==
    /\ mpc = "due"
    /\ \/ /\ mStarted < MaxPolls
          /\ mStarted' = mStarted + 1
          /\ mpc' = "checking"
       \/ /\ mStarted > 0
          /\ mpc' = "nap"
          /\ UNCHANGED mStarted
    /\ UNCHANGED <<keys, termResized, resizes, mReturned, mExit, pressedAt>>
    /\ UNCHANGED nonMonVars

\* check_wireguard_status returns; update_status, update_footer and
\* refresh_all draw, or raise a curses.error that the loop re-raises
MonCheckReturns ==
    /\ mpc = "checking"
    /\ mReturned' = mReturned + 1
    /\ \/ /\ mpc' = "nap"
          /\ UNCHANGED mExit
       \/ /\ mpc' = "exited"
          /\ mExit' = "error"
    /\ UNCHANGED <<keys, termResized, resizes, mStarted, pressedAt>>
    /\ UNCHANGED nonMonVars

\* curses.napms(1), and the next iteration
MonNap ==
    /\ mpc = "nap"
    /\ mpc' = "top"
    /\ UNCHANGED <<keys, termResized, resizes, mStarted, mReturned, mExit, pressedAt>>
    /\ UNCHANGED nonMonVars

\* the steps of the loop itself
MonLoop ==
    \/ MonCheckResize
    \/ MonGetch
    \/ MonCheckDue
    \/ MonCheckReturns
    \/ MonNap

MonNext ==
    \/ PressKey
    \/ ResizeTerminal
    \/ MonCheckResize
    \/ MonGetch
    \/ MonCheckDue
    \/ MonCheckReturns
    \/ MonNap

\* ================================================================ specifications
Init == InvInit /\ CfgInit /\ StInit /\ QFixed /\ PFixed /\ TFixed /\ MFixed

\* the status check and the lookup start from any inventory
StatusInit ==
    /\ InvInit /\ CfgInit /\ stDb \in Inventories /\ StFixed /\ QFixed /\ PFixed
    /\ TFixed /\ MFixed

\* a read runs on a store that was never created or that a refresh filled
QueryInit ==
    /\ InvInit \/ \E t \in QueryInventories : RefreshedStore(t)
    /\ CfgInit
    /\ StInit
    /\ QFixed
    /\ PFixed
    /\ TFixed
    /\ MFixed

SpecQuery == QueryInit /\ [][QueryNext]_vars

\* the parser is handed one of the texts
ParseInit ==
    /\ InvInit
    /\ CfgInit
    /\ StInit
    /\ QFixed
    /\ parseIn \in ParseInputs
    /\ parseOut = Pending
    /\ TFixed
    /\ MFixed

SpecParse == ParseInit /\ [][Parse]_vars

StatusNext ==
    \/ ListInterfaces
    \/ ShowInterface
    \/ LookupServer

SpecStatus == StatusInit /\ [][StatusNext]_vars

SpecMatch == StatusInit /\ [][FindServer]_vars

SpecInv == Init /\ [][InvNext]_vars

SpecCfg == Init /\ [][CfgNext]_vars

\* --- a refresh, then status checks ----------------------------------------
\* values of database.path in a config.toml
DbPathInputs == {"servers.db", StatusDbPath}

\* the application with a config loaded from an existing config.toml
AppInit ==
    /\ InvInit
    /\ \E path \in DbPathInputs :
          CfgInitWith([DefaultConfig EXCEPT !.database.path = PyStr(path)])
    /\ cfgDir = OwnerOnly
    /\ cfgFileMode = OwnerOnly
    /\ StInit
    /\ QFixed
    /\ PFixed
    /\ TFixed
    /\ MFixed

\* init_database, called once, before the first status check
AppRefresh ==
    /\ listCall = NotCalled
    /\ rpc = "idle" => clock = 0
    /\ InvNext

\* check_wireguard_status, called after init_database has returned
AppStatus ==
    /\ rpc = "idle"
    /\ rOutcome = "returned"
    /\ StatusNext

AppNext ==
    \/ AppRefresh
    \/ AppStatus

SpecApp == AppInit /\ [][AppNext]_vars

\* --- the tunnel -----------------------------------------------------------
\* an old tunnel config file, written for a server no longer in the inventory
OldConf == [public_key |-> <<"K9">>, endpoint |-> <<"a9">>]

\* one cli_connect, or one apply from the menu, on a refreshed inventory;
\* wg0 is up or down and a tunnel config file may exist
TunInit ==
    /\ \E t \in QueryInventories : Len(t) <= MaxServers /\ RefreshedStore(t)
    /\ CfgInit
    /\ StInit
    /\ QFixed
    /\ PFixed
    /\ MFixed
    /\ TIdle
    /\ ifaceUp \in BOOLEAN
    /\ wgConf \in {NoConf, OldConf}

SpecTunnel == TunInit /\ [][TunNext]_vars

\* --- the monitor ----------------------------------------------------------
MonInit == InvInit /\ CfgInit /\ StInit /\ QFixed /\ PFixed /\ TFixed /\ MonAt("top")

\* the loop is sequential code: while it has not exited its next step is
\* taken (every call of check_wireguard_status returns)
SpecMonitor == MonInit /\ [][MonNext]_vars /\ WF_vars(MonLoop)

\* ======================================================================
\* Properties
\* ======================================================================

\* ---- inventory refresh (under SpecInv) ----

\* steps of init_database that run after DELETE FROM servers
AfterDelete == {"reading", "bad row", "duplicate hostname", "inserted",
                "imported", "marked"}

\* C1: a refresh that fails at any step after the existing records were
\* deleted leaves the committed records exactly as they were before the call.
C1_FailedRefreshKeepsSnapshot ==
    (rpc = "idle" /\ rOutcome = "exit" /\ failStep \in AfterDelete)
        => dbServers = snapServers

\* C2: in every committed state the records and the marker come from the same
\* refresh: the store never holds the records of a refresh newer than its
\* marker (marker 0: no marker at all).
C2_MarkerCommittedWithRecords == dbMarker >= dbGen

\* ---- configuration store (under SpecCfg) ----

\* C3: when the process dies inside save(), config.toml afterwards holds the
\* complete previous content or the complete new content.
C3_SaveIsCrashSafe ==
    (cpc = "idle" /\ cOp = "save" /\ cResult = "killed")
        => cfgFile \in {fileBefore, TomlFile(TomlDump(ModelDump(memBefore)))}

\* the config file names the key file
ConfigReferencesKey ==
    /\ cfgFile.kind = "toml"
    /\ cfgFile.doc.wireguard.private_key_file = PyStr(KeyPath)

\* C4: at every point of a provisioning (interactive or from the
\* environment), and after the process died at any of its steps, a config
\* file that exists and references the key file never coexists with a key
\* file that others can read.
C4_KeyRestrictedBeforeConfig ==
    (cOp = "load_or_create" /\ provRan /\ ConfigReferencesKey /\ keyFile.kind = "file")
        => keyFile.mode = OwnerOnly

\* C4 witness: a provisioning has written the config file, next to a key
\* file it restricted before.
C4_Witness ==
    /\ cOp = "load_or_create"
    /\ provRan
    /\ ConfigReferencesKey
    /\ keyFile.kind = "file"
    /\ cpc = "load:parse"

\* C5: load_or_create on an existing config file that does not parse or does
\* not validate raises a format error, never enters provisioning and never
\* changes the file.
C5_InvalidConfigSurfaced ==
    (cOp = "load_or_create" /\ FileIsInvalid(fileBefore))
        => /\ ~provRan
           /\ cfgFile = fileBefore
           /\ (cpc = "idle" /\ cResult # "killed")
                 => cResult \in {"TomlDecodeError", "ValidationError"}

\* C5 witness: load_or_create has raised on a file cut short by an earlier
\* crash.
C5_Witness ==
    /\ cOp = "load_or_create"
    /\ cpc = "idle"
    /\ FileIsInvalid(fileBefore)
    /\ cResult = "TomlDecodeError"

\* C6: a set whose changed object fails validation raises and leaves the
\* in-memory config and the config file as they were before the call.
C6_InvalidSetChangesNothing ==
    (cOp = "set" /\ cResult = "ValidationError")
        => /\ cpc = "idle"
           /\ cfgMem = memBefore
           /\ cfgFile = fileBefore

\* C6 witness: a set has been rejected by validation.
C6_Witness ==
    /\ cOp = "set"
    /\ cResult = "ValidationError"
    /\ cfgFile # Absent

\* C7: when save (called directly or through set) raises PermissionError, the
\* in-memory config equals its value before the operation began.
C7_PermissionErrorKeepsMemory ==
    (cpc = "idle" /\ cOp \in {"save", "set"} /\ cResult = "PermissionError")
        => cfgMem = memBefore

\* a call of init_database has ended
RefreshEnded == rpc = "idle" /\ rOutcome \in {"returned", "exit"}

\* C14: a refresh returns (new_count, prev_count): prev_count is the number
\* of records before the call (0 without a store or table), new_count the
\* number of records the source supplied, and the store then holds new_count
\* records.
C14_RefreshCounts ==
    /\ rpc = "marked" => counts = <<Len(batch), Len(snapServers)>>
    /\ (rpc = "idle" /\ rOutcome = "returned") =>
           /\ Len(dbServers) = counts[1]
           /\ counts[2] = Len(snapServers)

\* a refresh that replaced a non-empty inventory by a larger one returned
C14_Witness ==
    /\ rpc = "idle"
    /\ rOutcome = "returned"
    /\ counts[2] > 0
    /\ counts[1] > counts[2]

C16_FetchRetried ==
    (RefreshEnded /\ srcPlan = 2 /\ failStep \in {"none", "fetch"}) =>
        /\ rOutcome = "returned"
        /\ fetchCalls = 3

\* C19: no two records of the inventory share a hostname.
C19_HostnamesUnique ==
    \A i, j \in 1..Len(dbServers) :
        i # j => dbServers[i].hostname # dbServers[j].hostname

\* a batch that repeats a hostname failed over a filled inventory
C19_Witness ==
    /\ RefreshEnded
    /\ failStep = "duplicate hostname"
    /\ Len(dbServers) > 0

\* C20: every record of the inventory has a load in 0..100.
C20_LoadInRange ==
    \A i \in 1..Len(dbServers) : dbServers[i].load \in 0..100

\* --- status check ---------------------------------------------------------
\* positions in the store of the records with this address / this key
\* (a key that is None or empty is not present)
WithAddress(address) == {i \in 1..Len(stDb) : stDb[i].ip = address}
WithKey(key) == {i \in 1..Len(stDb) : Truthy(key) /\ stDb[i].public_key = key}

\* C8: the lookup is two-phase.  With a store that answers: if some record
\* has the endpoint address of the details, the result is such a record with
\* method 'ip', whatever the public key matches; otherwise, if the public key
\* is present and is the key of some record, the result is such a record with
\* method 'public_key'; otherwise the result is (None, None).
C8_AddressFirstLookup ==
    (findDetails # NoDetails /\ ~findFails) =>
        IF WithAddress(findDetails.endpoint) # {}
        THEN /\ findResult.method = "ip"
             /\ \E i \in WithAddress(findDetails.endpoint) : findResult.server = stDb[i]
        ELSE IF WithKey(findDetails.public_key) # {}
        THEN /\ findResult.method = "public_key"
             /\ \E i \in WithKey(findDetails.public_key) : findResult.server = stDb[i]
        ELSE findResult = NotFound

\* the address is the one of record A, the key the one of another record B,
\* and A was returned
C8_Witness ==
    /\ findDetails # NoDetails
    /\ ~findFails
    /\ \E i \in WithAddress(findDetails.endpoint), j \in WithKey(findDetails.public_key) :
         /\ stDb[i].hostname # stDb[j].hostname
         /\ stDb[j].ip # findDetails.endpoint
         /\ findResult = [server |-> stDb[i], method |-> "ip"]

\* a call of the tool failed: it raised, or it exited with a non-zero status
ToolFailed(call) == call # NotCalled /\ (call.exc \/ call.rc # 0)

\* C9: when the listing call or the per-interface call of a status check
\* fails (non-zero exit or exception), the report returned has
\* is_connected = False.
C9_ToolFailureReportsDisconnected ==
    (spc = "idle" /\ (ToolFailed(listCall) \/ ToolFailed(showCall)))
        => report.is_connected = FALSE

\* C10: a returned report with is_connected = True has exactly one of
\* app_server_info and raw_unmatched_details set; one with
\* is_connected = False has neither.
C10_ExactlyOneOfMatchedUnmatched ==
    spc = "idle" =>
        IF report.is_connected
        THEN (report.app_server_info # PyNone) # (report.raw_unmatched_details # PyNone)
        ELSE report.app_server_info = PyNone /\ report.raw_unmatched_details = PyNone

\* --- read paths -----------------------------------------------------------
IsBestCall == qpc = "done" /\ qCall.op = "get_best_servers"
IsQueryCall == qpc = "done" /\ qCall.op = "get_servers"
StoreAnswered == qStore = "ok" /\ "servers" \in qBefore.tables

Min(a, b) == IF a < b THEN a ELSE b
Max(a, b) == IF a > b THEN a ELSE b

\* positions in the store of the records a ranking keeps
Kept ==
    {i \in 1..Len(qBefore.servers) :
        LET r == qBefore.servers[i]
        IN  /\ qCall.country = None \/ LowerName(r.country) = LowerName(qCall.country)
            /\ qCall.show_all \/ qCall.max_load <= 0 \/ r.load < qCall.max_load}

\* the place of a kept record in the ranking: lower load first, equal loads
\* in store order
Rank(i) ==
    1 + Cardinality({j \in Kept :
            \/ qBefore.servers[j].load < qBefore.servers[i].load
            \/ qBefore.servers[j].load = qBefore.servers[i].load /\ j < i})

\* the rows returned are the first n of the ranking
IsRankingPrefix(n) ==
    /\ ~qResult.raised
    /\ Len(qResult.rows) = Min(n, Cardinality(Kept))
    /\ \A i \in Kept : Rank(i) <= n => qResult.rows[Rank(i)] = qBefore.servers[i]

\* C11 as stated: get_best_servers returns exactly the first `limit` records
\* of the ranking (region compared case-insensitively, load strictly below
\* max_load unless max_load <= 0 or show_all, ascending load, ties in store
\* order).
C11_BestServersFirstLimit ==
    (IsBestCall /\ StoreAnswered /\ qCall.limit >= 0) => IsRankingPrefix(qCall.limit)

\* C11 amended: for a limit of at least 1 the result is the first `limit`
\* records of the ranking; for a limit of 0 (or below) it is the whole
\* ranking.
C11_BestServersRanking ==
    (IsBestCall /\ StoreAnswered) =>
        IF qCall.limit > 0 THEN IsRankingPrefix(qCall.limit)
        ELSE IsRankingPrefix(Cardinality(Kept))

\* loads [30, 10, 90, 10] with limit 3: the two load-10 records in store
\* order, then the load-30 record
C11_Witness ==
    /\ IsBestCall
    /\ StoreAnswered
    /\ qCall.limit = 3
    /\ qCall.country = None
    /\ Len(qBefore.servers) = 4
    /\ [i \in 1..4 |-> qBefore.servers[i].load] = <<30, 10, 90, 10>>
    /\ qResult.rows = <<qBefore.servers[2], qBefore.servers[4], qBefore.servers[1]>>

\* C12: get_best_servers never raises, returns [] when the store cannot be
\* opened or read, and leaves the store (its existence, tables, records and
\* marker) as it was.
C12_BestServersReadOnly ==
    IsBestCall =>
        /\ ~qResult.raised
        /\ (~StoreAnswered => qResult.rows = <<>>)
        /\ StoreState = qBefore

\* positions in the store of the records that satisfy every supplied filter
Matching ==
    {i \in 1..Len(qBefore.servers) :
        LET r == qBefore.servers[i]
        IN  /\ qCall.country = None \/ LowerName(r.country) = LowerName(qCall.country)
            /\ qCall.city = None \/ r.city = qCall.city
            /\ qCall.ip = NoneStr \/ r.ip = qCall.ip
            /\ qCall.public_key = NoneStr \/ r.public_key = qCall.public_key}

\* the place of a matching record among the matches, in store order
Place(i) == Cardinality({j \in Matching : j <= i})

\* the rows returned are the matches at places skip+1 .. skip+n
IsWindow(skip, n) ==
    /\ Len(qResult.rows) = Max(0, Min(n, Cardinality(Matching) - skip))
    /\ \A i \in Matching :
         (skip < Place(i) /\ Place(i) <= skip + n) =>
             qResult.rows[Place(i) - skip] = qBefore.servers[i]

\* C13: get_servers returns the records that satisfy every supplied filter
\* (country compared case-insensitively, city, ip and public_key exactly):
\* all of them in store order without a limit, and with a limit L > 0 and an
\* offset K the (at most L) matches that follow the first K.
C13_QueryReturnsMatches ==
    (IsQueryCall /\ StoreAnswered) =>
        /\ ~qResult.raised
        /\ qCall.limit = 0 => IsWindow(0, Cardinality(Matching))
        /\ (qCall.limit > 0 /\ qCall.offset >= 0) => IsWindow(qCall.offset, qCall.limit)

\* a page of one record after one skipped, found through a country filter
\* written in another case and a city filter
C13_Witness ==
    /\ IsQueryCall
    /\ StoreAnswered
    /\ qCall.limit = 1
    /\ qCall.offset = 1
    /\ qCall.city # None
    /\ qCall.country # None
    /\ Len(qResult.rows) = 1
    /\ qResult.rows[1].country # qCall.country
    /\ Cardinality(Matching) = 2

\* --- parser ---------------------------------------------------------------
Parsed == parseOut # Pending

\* some line of the text holds the key
HasLine(key) ==
    \E i \in 1..Len(parseIn) : Contains(Lower(Strip(parseIn[i])), key)

\* C17: the parser returns None for the empty text, and for a text it does
\* parse every field whose line is absent is left unset (the transfer
\* strings at their defaults).
C17_ParseNullOnlyOnEmpty ==
    Parsed =>
        /\ parseIn = <<<<>>>> => parseOut = NoDetails
        /\ parseOut # NoDetails =>
             /\ ~HasLine(<<"peer", ":">>) => parseOut.public_key = NoneStr
             /\ ~HasLine(<<"endpoint", ":">>) => parseOut.endpoint = NoneStr
             /\ ~HasLine(<<"latest", " ", "handshake", ":">>)
                    => parseOut.latest_handshake = NoneStr
             /\ ~HasLine(<<"transfer", ":">>) => parseOut.transfer = InitialInfo.transfer

\* C18: a text that holds only the line `endpoint: H:P` parses to details
\* with endpoint H, no public key, no handshake and the default transfer
\* strings.
C18_EndpointOnlyParse ==
    \A h \in EndpointHosts, p \in EndpointPorts :
        (Parsed /\ parseIn = <<EndpointText(h, p)>>)
            => parseOut = [InitialInfo EXCEPT !.endpoint = h]

\* ---- configuration store, continued (under SpecCfg) ----

\* C21: a load_or_create() that follows a save() that returned, on the same
\* files, returns and leaves an in-memory AppConfig equal field by field to
\* the one that was saved.
C21_SaveLoadRoundTrip ==
    (cOp = "load_or_create" /\ cpc = "idle" /\ cCall = LoadArgs(TRUE)
        /\ cResult # "killed")
        => /\ cResult = "ok"
           /\ cfgMem = memBefore

\* C22: after set(section, key, value) returned, get(section, key) returns
\* value, whether or not section and key are names of the schema.
C22_GetReturnsWhatWasSet ==
    (cOp = "set" /\ cpc = "idle" /\ cResult = "ok")
        => Get(cfgMem, cCall.section, cCall.key) = cCall.value

\* C23: when save() or set() has returned, and when the provisioning of
\* load_or_create has written the config file and returned, config.toml is
\* readable by its owner only and the config directory exists and is
\* accessible by its owner only.
C23_WrittenConfigOwnerOnly ==
    (\/ cpc = "idle" /\ cResult = "ok" /\ cOp \in {"save", "set"}
     \/ cOp = "load_or_create" /\ provRan /\ cpc = "load:parse"
     \/ cOp = "load_or_create" /\ provRan /\ cpc = "idle" /\ cResult = "ok")
        => /\ cfgFileMode = OwnerOnly
           /\ cfgDir = OwnerOnly

\* C30: at every instant, inside a provisioning and after the process died
\* at any of its steps, the key file does not exist or is readable by its
\* owner only.
C30_KeyFileNeverOpen ==
    keyFile.kind = "file" => keyFile.mode = OwnerOnly

\* ---- status check, continued ----

\* C26 (under SpecApp): whatever database.path the config names, when a
\* refresh has returned and stored a record with address X, a status check
\* that finds wg0 up with endpoint X and a store that answers reports a
\* record with address X of that inventory, found by 'ip'.
C26_StatusMatchesRefreshedInventory ==
    LET X == ParseWgInterfaceOutput(showCall.stdout).endpoint
        stored == {i \in 1..Len(dbServers) : dbServers[i].ip = X}
    IN  (spc = "idle" /\ dbCall = "ok" /\ rOutcome = "returned" /\ stored # {})
            => /\ report.app_server_info # PyNone
               /\ report.app_server_info.found_by = "ip"
               /\ \E i \in stored :
                     report.app_server_info.hostname = dbServers[i].hostname

\* C27 (under SpecStatus): when the peer line of `wg show wg0` carries the
\* key K, in whatever case, the endpoint is the address of no record and
\* some record has exactly the key K, the report names such a record, found
\* by 'public_key'.
C27_KeySurvivesParsing ==
    \A K \in {<<"K1">>, <<"K2">>, <<"k1">>} :
        (/\ spc = "idle"
         /\ dbCall = "ok"
         /\ \E i \in 1..Len(showCall.stdout) :
               showCall.stdout[i] = <<"peer", ":", " ">> \o K
         /\ WithAddress(ParseWgInterfaceOutput(showCall.stdout).endpoint) = {}
         /\ WithKey(K) # {})
            => /\ report.app_server_info # PyNone
               /\ report.app_server_info.found_by = "public_key"
               /\ \E i \in WithKey(K) :
                     report.app_server_info.hostname = stDb[i].hostname

\* C28 (under SpecStatus): a status check that found wg0 up and parsed the
\* output of `wg show wg0`, and whose store could not be opened or failed the
\* query, reports is_connected = True with the raw unmatched details.
C28_StoreFailureOnlyDegradesMatch ==
    (spc = "idle" /\ dbCall \in {"connect fails", "query fails"})
        => /\ report.is_connected = TRUE
           /\ report.raw_unmatched_details = ParseWgInterfaceOutput(showCall.stdout)
           /\ report.app_server_info = PyNone

\* ---- tunnel (under SpecTunnel) ----

\* C24: `--connect SERVER` with the hostname of a record writes the tunnel
\* config from exactly that record (its address and key) and brings the
\* tunnel up, as far as the key file is there and the tools succeed; with a
\* hostname that no record has it reports `not found` and leaves the tunnel
\* config file as it was.
C24_ConnectByHostname ==
    (conCall # NoConnect /\ conCall.arg # "auto") =>
        LET named == {i \in 1..Len(dbServers) : dbServers[i].hostname = conCall.arg}
        IN  IF named = {}
            THEN /\ conCall.out = "not found"
                 /\ wgConf = conCall.before
            ELSE (keyFile.kind = "file" /\ conCall.cp) =>
                    /\ \E i \in named : wgConf = WireGuardConfig(dbServers[i])
                    /\ conCall.out \in {"connected", "failed"}
                    /\ conCall.up => (ifaceUp /\ conCall.out = "connected")

\* C29: when generate_config_from_list has written the tunnel config file
\* while wg0 was up, a disconnect had been attempted, had failed, and the
\* operator had answered `y` to `Continue anyway?`; whatever the status check
\* before it returned.
C29_NoOverwriteWhileUp ==
    (tpc = "ask" /\ ifaceUp)
        => /\ tDown \in {"failed", "raised"}
           /\ tAnswer = "y"

\* ---- monitor loop (under SpecMonitor) ----

\* C25: the getch() that reads the stop key ends the loop in that step,
\* without another check_wireguard_status; the loop never ends with a call
\* of check_wireguard_status begun and not returned, and begins none after
\* it ended; and once the stop key is queued the loop eventually ends.
C25_StopOnNextIteration ==
    /\ [][(mpc = "getch" /\ keys # <<>> /\ Head(keys) = StopKey /\ mpc' # "getch")
            => (mpc' = "exited" /\ mStarted' = mStarted)]_vars
    /\ [](mpc = "exited" => mStarted = mReturned)
    /\ [][mpc = "exited" => (mpc' = "exited" /\ mStarted' = mStarted)]_vars
    /\ ((\E i \in 1..Len(keys) : keys[i] = StopKey) ~> (mpc = "exited"))

\* the stop key was pressed while a status check was running; the check
\* returned, every queued key was read and the loop left through `break`
C25_Witness ==
    /\ mpc = "exited"
    /\ mExit = "break"
    /\ pressedAt = "checking"
    /\ mStarted = mReturned
    /\ mStarted = MaxPolls
    /\ keys = <<>>

====
